---- MODULE Spec2Model ----
(***************************************************************************)
(* HwMonitor_Rust/src/main.rs: the egui application HwMonitorApp.  Its     *)
(* state is the sysinfo handle `system` (of which update reads the CPU     *)
(* list, the sensor-component list and the disk list) and the two fields   *)
(* cpu_temp and cpu_load; its only operation is eframe::App::update, which *)
(* refreshes the handle, recomputes the two fields and renders the labels. *)
(*                                                                         *)
(* f32 values are modelled as exact rationals <<n, d>> in lowest terms     *)
(* with d > 0, extended by the IEEE results of a division by zero:         *)
(* <<0, 0>> is NaN, <<1, 0>> is +inf and <<-1, 0>> is -inf.  Rounding of   *)
(* the binary representation is abstracted away.                           *)
(* Option<T> is a sequence of length at most one: None is <<>>, Some(x) is *)
(* <<x>>.  A label of a component and an OsStr are sequences of units.     *)
(***************************************************************************)
EXTENDS Integers, Sequences, FiniteSets, TLC

VARIABLES
    cpus,        \* self.system.cpus(): per-core usage readings of the last refresh
    components,  \* self.system.components(): [label, temperature] of the last refresh
    disks,       \* self.system.disks(): [name, mount_point, kind] of the last refresh
    cpu_temp,    \* HwMonitorApp.cpu_temp : Option<f32>
    cpu_load,    \* HwMonitorApp.cpu_load : Option<f32>
    ui,          \* the labels the last update put on the panel, in order; <<>> before the first frame
    repeated,    \* history: the last update refreshed to the very readings the update before it had
    had_temp,    \* history: cpu_temp held a value when the last update began
    ever_cpus    \* history: some update so far found a non-empty CPU list

vars == <<cpus, components, disks, cpu_temp, cpu_load, ui, repeated, had_temp, ever_cpus>>

(***************************************************************************)
(* Bounds of the model: the longest lists a refresh may yield.             *)
(***************************************************************************)
MaxCpus == 2
MaxComponents == 2
MaxDisks == 2

(***************************************************************************)
(* Option<T>                                                               *)
(***************************************************************************)
None == <<>>
Some(x) == <<x>>
IsSome(o) == Len(o) = 1
Unwrap(o) == o[1]
UnwrapOr(o, dflt) == IF IsSome(o) THEN o[1] ELSE dflt

(***************************************************************************)
(* f32 as extended rationals                                               *)
(***************************************************************************)
Abs(n) == IF n < 0 THEN -n ELSE n
Sign(n) == IF n > 0 THEN 1 ELSE IF n < 0 THEN -1 ELSE 0

RECURSIVE GCD(_, _)
GCD(a, b) == IF b = 0 THEN a ELSE GCD(b, a % b)

\* n/d in lowest terms with a positive denominator; d = 0 gives NaN or an infinity
Norm(n, d) ==
    IF d = 0 THEN <<Sign(n), 0>>
    ELSE LET g == GCD(Abs(n), Abs(d))
             s == Sign(d)
         IN  <<(s * n) \div g, (s * d) \div g>>

F32(n) == <<n, 1>>
Zero == F32(0)
NaN == <<0, 0>>
IsNaN(x) == x = NaN
IsFinite(x) == x[2] # 0

\* a + b on finite values (the only ones the readings hold)
FAdd(a, b) == Norm(a[1] * b[2] + b[1] * a[2], a[2] * b[2])
\* a / b with the IEEE results for a zero divisor
FDiv(a, b) == Norm(a[1] * b[2], a[2] * b[1])
\* a > 0.0; false for NaN
GtZero(a) == a[1] > 0

(***************************************************************************)
(* Strings: a label and an OsStr are sequences of one-character units.     *)
(***************************************************************************)
UpperChars == <<"A","B","C","D","E","F","G","H","I","J","K","L","M",
                "N","O","P","Q","R","S","T","U","V","W","X","Y","Z">>
LowerChars == <<"a","b","c","d","e","f","g","h","i","j","k","l","m",
                "n","o","p","q","r","s","t","u","v","w","x","y","z">>

\* the lower-case letter of each upper-case one
LowerOf ==
    [c \in {UpperChars[i] : i \in DOMAIN UpperChars} |->
        LowerChars[CHOOSE i \in DOMAIN UpperChars : UpperChars[i] = c]]

ToLowerChar(c) == IF c \in DOMAIN LowerOf THEN LowerOf[c] ELSE c

\* str::to_lowercase
ToLowercase(s) == [i \in DOMAIN s |-> ToLowerChar(s[i])]

\* str::contains(pattern)
Contains(s, pat) ==
    \E i \in 1..(Len(s) - Len(pat) + 1) : SubSeq(s, i, i + Len(pat) - 1) = pat

\* the pattern "cpu" of update
CpuPattern == <<"c", "p", "u">>

\* a unit that is not valid UTF-8, and U+FFFD, which to_string_lossy puts in its place
InvalidByte == "<FF>"
ReplacementChar == "<U+FFFD>"

\* OsStr::to_string_lossy
ToStringLossy(os) ==
    [i \in DOMAIN os |-> IF os[i] = InvalidByte THEN ReplacementChar ELSE os[i]]

\* the units of a string written out one after the other
RECURSIVE Concat(_)
Concat(s) == IF s = <<>> THEN "" ELSE Head(s) \o Concat(Tail(s))

\* format!("{:.1}", x): one decimal, ties to even
FormatFixed1(x) ==
    IF IsNaN(x) THEN "NaN"
    ELSE IF ~IsFinite(x) THEN (IF x[1] < 0 THEN "-inf" ELSE "inf")
    ELSE LET m == 10 * Abs(x[1])
             q == m \div x[2]
             r == m % x[2]
             t == IF 2 * r > x[2] \/ (2 * r = x[2] /\ q % 2 = 1) THEN q + 1 ELSE q
         IN  (IF x[1] < 0 THEN "-" ELSE "") \o ToString(t \div 10) \o "." \o ToString(t % 10)

\* sysinfo::DiskKind and its derived Debug
HDD == <<"HDD">>
SSD == <<"SSD">>
Unknown(n) == <<"Unknown", n>>
DebugKind(k) ==
    IF Len(k) = 2 THEN k[1] \o "(" \o ToString(k[2]) \o ")" ELSE k[1]

(***************************************************************************)
(* The readings a refresh may yield.                                       *)
(***************************************************************************)
Component(l, t) == [label |-> l, temperature |-> t]
Disk(n, m, k) == [name |-> n, mount_point |-> m, kind |-> k]

CpuPackage == <<"C","P","U"," ","P","a","c","k","a","g","e">>
GpuCore == <<"G","P","U"," ","C","o","r","e">>
Cpu0 == <<"c","p","u","0">>
Cpu1 == <<"c","p","u","1">>

CpuUsages == {F32(0), F32(100)}
ComponentPool ==
    { Component(CpuPackage, Norm(452, 10)),
      Component(GpuCore, F32(60)),
      Component(Cpu0, Zero),
      Component(Cpu1, Norm(523, 10)) }
DiskPool ==
    { Disk(<<"s","d","a">>, <<"/">>, SSD),
      Disk(<<"s","d",InvalidByte>>, <<"/","u","s","b">>, Unknown(-1)) }

SeqsUpTo(S, n) == UNION {[1..k -> S] : k \in 0..n}
\* an enumeration lists each device once
Distinct(s) == \A i, j \in DOMAIN s : s[i] = s[j] => i = j

CpuLists == SeqsUpTo(CpuUsages, MaxCpus)
ComponentLists == {s \in SeqsUpTo(ComponentPool, MaxComponents) : Distinct(s)}
DiskLists == {s \in SeqsUpTo(DiskPool, MaxDisks) : Distinct(s)}

(***************************************************************************)
(* update, lines 32-36: the CPU load                                       *)
(***************************************************************************)
\* cpus.iter().map(|cpu| cpu.cpu_usage()).sum(): a left fold from 0.0
RECURSIVE SumFrom(_, _)
SumFrom(acc, s) == IF s = <<>> THEN acc ELSE SumFrom(FAdd(acc, Head(s)), Tail(s))
TotalLoad(cpuList) == SumFrom(Zero, cpuList)

\* a slip: the divisor is one too large
MeanLoad_OffByOne(cpuList) == FDiv(TotalLoad(cpuList), F32(Len(cpuList) + 1))

\* total_load / cpus.len() as f32
MeanLoad(cpuList) == FDiv(TotalLoad(cpuList), F32(Len(cpuList)))

\* a slip: an empty CPU list clears the field
CpuLoad_ResetOnEmpty(prior, cpuList) ==
    IF cpuList # <<>> THEN Some(FDiv(TotalLoad(cpuList), F32(Len(cpuList)))) ELSE None

\* a slip: an empty CPU list reads as no load at all
CpuLoad_ZeroOnEmpty(prior, cpuList) ==
    IF cpuList # <<>> THEN Some(FDiv(TotalLoad(cpuList), F32(Len(cpuList)))) ELSE Some(Zero)

\* a slip: the is_empty guard is missing
CpuLoad_NoGuard(prior, cpuList) ==
    Some(FDiv(TotalLoad(cpuList), F32(Len(cpuList))))

\* a slip: the new mean is averaged with the value held before
CpuLoad_Smoothed(prior, cpuList) ==
    IF cpuList # <<>>
    THEN LET m == FDiv(TotalLoad(cpuList), F32(Len(cpuList)))
         IN  IF IsSome(prior) THEN Some(FDiv(FAdd(Unwrap(prior), m), F32(2))) ELSE Some(m)
    ELSE prior

\* the value of self.cpu_load after lines 32-36, given its value before them
CpuLoad(prior, cpuList) ==
    IF cpuList # <<>> THEN Some(MeanLoad(cpuList)) ELSE prior

(***************************************************************************)
(* update, lines 38-40: the CPU temperature                                *)
(***************************************************************************)
\* a slip: the reading is not tested
Matches_AnyReading(comp) == Contains(ToLowercase(comp.label), CpuPattern)

\* the closure given to find
Matches(comp) ==
    Contains(ToLowercase(comp.label), CpuPattern) /\ GtZero(comp.temperature)

\* Iterator::find: the first element the closure accepts
RECURSIVE Find(_)
Find(comps) ==
    IF comps = <<>> THEN None
    ELSE IF Matches(Head(comps)) THEN Some(Head(comps))
    ELSE Find(Tail(comps))

\* a slip: without a match the field keeps the value it held
CpuTemp_Carry(comps) ==
    IF IsSome(Find(comps)) THEN Some(Unwrap(Find(comps)).temperature) ELSE cpu_temp

\* .find(..).map(|comp| comp.temperature()), assigned to self.cpu_temp
CpuTemp(comps) ==
    LET found == Find(comps)
    IN  IF IsSome(found) THEN Some(Unwrap(found).temperature) ELSE None

(***************************************************************************)
(* update, lines 43-71: the panel                                          *)
(***************************************************************************)
Separator == "<separator>"
NoDisksFound == "  No disks found."

\* format!("  {}: {} (Type: {:?})", name, mount point, kind)
DiskLabel(d) ==
    "  " \o Concat(ToStringLossy(d.name)) \o ": "
         \o Concat(ToStringLossy(d.mount_point))
         \o " (Type: " \o DebugKind(d.kind) \o ")"

\* a slip: the disks come out last first
DiskLabels_Reversed(diskList) ==
    IF diskList = <<>> THEN <<NoDisksFound>>
    ELSE [i \in DOMAIN diskList |-> DiskLabel(diskList[Len(diskList) + 1 - i])]

\* lines 57-68: what is put on the panel for the disks
DiskLabels(diskList) ==
    IF diskList = <<>> THEN <<NoDisksFound>>
    ELSE [i \in DOMAIN diskList |-> DiskLabel(diskList[i])]

\* lines 44-55: what is put on the panel before the disks
PanelHead(temp, load) ==
    << "Hardware Monitor (Rust Egui)",
       Separator,
       "CPU Temperature: " \o FormatFixed1(UnwrapOr(temp, Zero)) \o "°C",
       "CPU Load: " \o FormatFixed1(UnwrapOr(load, Zero)) \o "%",
       Separator,
       "GPU Temperature: N/A",
       "GPU Load: N/A",
       "Memory Temperature: N/A",
       Separator,
       "Disk Temperatures:" >>

Panel(temp, load, diskList) == PanelHead(temp, load) \o DiskLabels(diskList)

\* the part of a rendered panel that follows "Disk Temperatures:"
DiskSection(panel) == SubSeq(panel, Len(PanelHead(None, None)) + 1, Len(panel))

(***************************************************************************)
(* HwMonitorApp::default, lines 11-22: System::new_all and refresh_all     *)
(* fill the handle with whatever the host reports; both fields are None;   *)
(* nothing has been rendered.                                              *)
(***************************************************************************)
Init ==
    /\ cpus \in CpuLists
    /\ components \in ComponentLists
    /\ disks \in DiskLists
    /\ cpu_temp = None
    /\ cpu_load = None
    /\ ui = <<>>
    /\ repeated = FALSE
    /\ had_temp = FALSE
    /\ ever_cpus = FALSE

(***************************************************************************)
(* eframe::App::update, lines 25-72.  c, s and d are what refresh_cpu,     *)
(* refresh_components_list and refresh_disks_list find on the host in this *)
(* frame.  refresh_memory changes nothing update reads, and                *)
(* request_repaint_after only schedules the next frame.                    *)
(***************************************************************************)
Update(c, s, d) ==
    /\ cpus' = c
    /\ components' = s
    /\ disks' = d
    /\ cpu_load' = CpuLoad(cpu_load, c)
    /\ cpu_temp' = CpuTemp(s)
    /\ ui' = Panel(cpu_temp', cpu_load', d)
    /\ repeated' = (ui # <<>> /\ c = cpus /\ s = components /\ d = disks)
    /\ had_temp' = IsSome(cpu_temp)
    /\ ever_cpus' = (ever_cpus \/ c # <<>>)

(***************************************************************************)
(* One frame.  Frames are 950 ms apart (line 70); from one frame to the    *)
(* next the model lets the readings of one subsystem differ, the other two *)
(* refreshes finding what they found before.  Every combination of lists   *)
(* is an initial state, and each field update computes is met with every   *)
(* value of the list it is computed from, whatever the field held before.  *)
(***************************************************************************)
\* refresh_cpu (line 26) finds new per-core usages
CpuFrame == \E c \in CpuLists : Update(c, components, disks)
\* refresh_components_list (line 28) finds another component list
ComponentsFrame == \E s \in ComponentLists : Update(cpus, s, disks)
\* refresh_disks_list (line 29) finds another disk list
DisksFrame == \E d \in DiskLists : Update(cpus, components, d)

Next == CpuFrame \/ ComponentsFrame \/ DisksFrame

Spec == Init /\ [][Next]_vars

(***************************************************************************)
(* Vocabulary of the properties, stated without the operators above.       *)
(***************************************************************************)
\* at least one update has run
Rendered == ui # <<>>

\* the label contains "cpu" in some mix of cases
LabelHasCpu(l) ==
    \E i \in 1..(Len(l) - 2) :
        /\ l[i] \in {"c", "C"}
        /\ l[i + 1] \in {"p", "P"}
        /\ l[i + 2] \in {"u", "U"}

\* a component whose label contains "cpu" and whose reading is strictly positive
Usable(comp) == LabelHasCpu(comp.label) /\ comp.temperature[1] > 0
NoUsable(comps) == \A i \in DOMAIN comps : ~Usable(comps[i])
FirstUsable(comps, i) ==
    /\ i \in DOMAIN comps
    /\ Usable(comps[i])
    /\ \A j \in 1..(i - 1) : ~Usable(comps[j])

\* the sum of whole-numbered readings, from the last to the first
RECURSIVE WholeSum(_)
WholeSum(s) ==
    IF s = <<>> THEN 0 ELSE s[Len(s)][1] + WholeSum(SubSeq(s, 1, Len(s) - 1))

\* load is Some(v) with v = (sum of readings) / (number of readings)
IsMeanOf(load, readings) ==
    /\ \A i \in DOMAIN readings : readings[i][2] = 1
    /\ Len(load) = 1
    /\ load[1][2] > 0
    /\ load[1][1] * Len(readings) = WholeSum(readings) * load[1][2]

\* an Option<f32> that is None or holds a finite number
NoneOrNumber(o) == o = None \/ (Len(o) = 1 /\ o[1][2] > 0)

\* the ten labels before the disks show these two fields
FieldsShown(panel, temp, load) ==
    SubSeq(panel, 1, Len(panel) - Len(DiskSection(panel))) = PanelHead(temp, load)

\* the disk part of the panel is one line per disk, in the order of the list
OneLinePerDisk(panel, diskList) ==
    /\ Len(DiskSection(panel)) = Len(diskList)
    /\ \A i \in DOMAIN diskList : DiskSection(panel)[i] = DiskLabel(diskList[i])
    /\ \A i \in DOMAIN DiskSection(panel) : DiskSection(panel)[i] # NoDisksFound

(***************************************************************************)
(* C1.  Stale carry of the load.  As claimed: in every update whose        *)
(* refreshed CPU list is empty, cpu_load after the update equals cpu_load  *)
(* as it was before it, and it is not None.                                *)
(***************************************************************************)
C1_StaleCarryNotNone ==
    [][cpus' = <<>> => (cpu_load' = cpu_load /\ cpu_load' # None)]_vars

\* C1, amended: in every update whose refreshed CPU list is empty, cpu_load after
\* the update equals cpu_load as it was before it (None when it was None before).
C1_StaleCarry ==
    [][cpus' = <<>> => cpu_load' = cpu_load]_vars

\* an update with an empty CPU list has run and a value was carried over it
C1_Witness == Rendered /\ cpus = <<>> /\ ever_cpus /\ IsSome(cpu_load)

(***************************************************************************)
(* C2.  Overwrite of the temperature: after an update in which no          *)
(* component has both a label containing "cpu" (in any case) and a reading *)
(* above zero, cpu_temp is None, whatever it held before.                  *)
(***************************************************************************)
C2_Overwrite == (Rendered /\ NoUsable(components)) => cpu_temp = None

\* cpu_temp held a value, and an update that found only a "cpu" label reading
\* zero has cleared it
C2_Witness ==
    /\ Rendered /\ had_temp
    /\ NoUsable(components)
    /\ \E i \in DOMAIN components : LabelHasCpu(components[i].label)
    /\ cpu_temp = None

(***************************************************************************)
(* C3.  Temperature selection: after an update, cpu_temp is the reading of *)
(* the first component, in enumeration order, whose label contains "cpu"   *)
(* in any case and whose reading is above zero; in particular              *)
(* [cpu0 0.0, cpu1 52.3] gives 52.3 and [CPU Package 45.2, GPU Core 60.0]  *)
(* gives 45.2.                                                             *)
(***************************************************************************)
C3_Selection ==
    Rendered =>
        /\ \A i \in DOMAIN components :
              FirstUsable(components, i) => cpu_temp = Some(components[i].temperature)
        /\ components = <<Component(Cpu0, Zero), Component(Cpu1, Norm(523, 10))>>
              => cpu_temp = Some(Norm(523, 10))
        /\ components = <<Component(CpuPackage, Norm(452, 10)), Component(GpuCore, F32(60))>>
              => cpu_temp = Some(Norm(452, 10))

\* an update has skipped a "cpu" label reading zero and taken the one after it
C3_Witness ==
    /\ Rendered
    /\ components = <<Component(Cpu0, Zero), Component(Cpu1, Norm(523, 10))>>
    /\ cpu_temp = Some(Norm(523, 10))

(***************************************************************************)
(* C4.  The load is the plain mean: after an update whose refreshed CPU    *)
(* list is non-empty, cpu_load is the sum of that list's readings divided  *)
(* by their number.                                                        *)
(***************************************************************************)
C4_PlainMean == (Rendered /\ cpus # <<>>) => IsMeanOf(cpu_load, cpus)

\* an update has averaged two different readings
C4_Witness ==
    /\ Rendered
    /\ cpus = <<F32(0), F32(100)>>
    /\ cpu_load = Some(F32(50))

(***************************************************************************)
(* C5.  As claimed: after an update whose refreshed CPU list is empty,     *)
(* cpu_load is None.                                                       *)
(***************************************************************************)
C5_NoneIfNoCpus == (Rendered /\ cpus = <<>>) => cpu_load = None

\* C5, amended: after an update whose refreshed CPU list is empty, cpu_load is
\* None exactly if no update so far has found a CPU.
C5_NoneIfNeverCpus ==
    (Rendered /\ cpus = <<>>) => (cpu_load = None <=> ~ever_cpus)

\* no update, the last one included, has found a CPU, and the field is None
C5_Witness == Rendered /\ cpus = <<>> /\ ~ever_cpus /\ cpu_load = None

(***************************************************************************)
(* C6.  Snapshot self-consistency.  As claimed: after every update each    *)
(* field shown comes from the readings of that update, except that         *)
(* cpu_load keeps its value over an empty CPU list and cpu_temp keeps its  *)
(* value when no "cpu" component reads above zero.                         *)
(***************************************************************************)
C6_BothRetained ==
    [][ /\ cpus' # <<>> => IsMeanOf(cpu_load', cpus')
        /\ cpus' = <<>> => cpu_load' = cpu_load
        /\ \A i \in DOMAIN components' :
              FirstUsable(components', i) => cpu_temp' = Some(components'[i].temperature)
        /\ NoUsable(components') => cpu_temp' = cpu_temp
        /\ FieldsShown(ui', cpu_temp', cpu_load')
        /\ IF disks' = <<>> THEN DiskSection(ui') = <<NoDisksFound>>
                            ELSE OneLinePerDisk(ui', disks') ]_vars

\* C6, amended: after every update each field shown comes from the readings of
\* that update, except only that cpu_load keeps its value over an empty CPU list;
\* cpu_temp is None when no "cpu" component reads above zero.
C6_LoadRetained ==
    [][ /\ cpus' # <<>> => IsMeanOf(cpu_load', cpus')
        /\ cpus' = <<>> => cpu_load' = cpu_load
        /\ \A i \in DOMAIN components' :
              FirstUsable(components', i) => cpu_temp' = Some(components'[i].temperature)
        /\ NoUsable(components') => cpu_temp' = None
        /\ FieldsShown(ui', cpu_temp', cpu_load')
        /\ IF disks' = <<>> THEN DiskSection(ui') = <<NoDisksFound>>
                            ELSE OneLinePerDisk(ui', disks') ]_vars

\* an update that found no CPU and no usable sensor, but a disk: the load is the
\* one carried over, the temperature it held is gone, the disk is shown
C6_Witness ==
    /\ Rendered /\ had_temp /\ ever_cpus
    /\ cpus = <<>> /\ IsSome(cpu_load)
    /\ NoUsable(components) /\ cpu_temp = None
    /\ disks # <<>> /\ OneLinePerDisk(ui, disks)

(***************************************************************************)
(* C7.  An update never fails: whatever the refreshes find, empty lists    *)
(* included, it runs to its end, the mean is never taken over zero CPUs    *)
(* (which in f32 yields NaN), and each field is None or a number.          *)
(***************************************************************************)
C7_NeverFails ==
    /\ NoneOrNumber(cpu_load)
    /\ NoneOrNumber(cpu_temp)
    /\ ENABLED Update(<<>>, <<>>, <<>>)
    /\ Rendered => Len(DiskSection(ui)) >= 1

\* an update has run with every list empty
C7_Witness ==
    /\ Rendered
    /\ cpus = <<>> /\ components = <<>> /\ disks = <<>>
    /\ cpu_load = None /\ cpu_temp = None
    /\ DiskSection(ui) = <<NoDisksFound>>

(***************************************************************************)
(* C8.  Disk rendering: an update that finds no disk renders "No disks     *)
(* found." and no disk line; otherwise it renders one line per disk (name, *)
(* mount point, kind), in enumeration order, and no "No disks found.".     *)
(***************************************************************************)
C8_DiskRendering ==
    Rendered =>
        IF disks = <<>> THEN DiskSection(ui) = <<NoDisksFound>>
                        ELSE OneLinePerDisk(ui, disks)

\* two disks, rendered in the order they were enumerated in
C8_Witness ==
    /\ Rendered
    /\ Len(disks) = 2
    /\ disks[1].kind = Unknown(-1)
    /\ DiskSection(ui) = << "  sd<U+FFFD>: /usb (Type: Unknown(-1))",
                            "  sda: / (Type: SSD)" >>

(***************************************************************************)
(* C9.  Idempotence: an update that finds the very readings the update     *)
(* before it found leaves cpu_load, cpu_temp and the rendered disks as     *)
(* that update left them.                                                  *)
(***************************************************************************)
C9_Idempotent ==
    [][ (Rendered /\ cpus' = cpus /\ components' = components /\ disks' = disks)
            => /\ cpu_load' = cpu_load
               /\ cpu_temp' = cpu_temp
               /\ DiskSection(ui') = DiskSection(ui) ]_vars

\* an update has run on unchanged readings, with a carried load and a found
\* temperature
C9_Witness ==
    /\ repeated
    /\ cpus = <<>> /\ IsSome(cpu_load)
    /\ IsSome(cpu_temp)
    /\ disks # <<>>

(***************************************************************************)
(* C10.  cpu_load never reverts to None: it is None at construction, stays *)
(* None over updates that find no CPU, holds a value from the first update *)
(* that finds one and in every state after it.                             *)
(***************************************************************************)
C10_NeverReverts ==
    /\ cpu_load = None
    /\ [][ /\ IsSome(cpu_load) => IsSome(cpu_load')
           /\ cpu_load = None => (cpu_load' = None <=> cpus' = <<>>) ]_vars

\* the load has outlived an empty CPU list while the temperature went back to None
C10_Witness ==
    /\ Rendered /\ ever_cpus /\ had_temp
    /\ cpus = <<>> /\ IsSome(cpu_load)
    /\ cpu_temp = None
    /\ components # <<>>

====
